---- MODULE Spec2Model ----
(***************************************************************************)
(* The chat route of the PDF chatbot (src/src/app/api/chat/route.ts): the  *)
(* process-wide readiness flag isInitialized, the one-time index build     *)
(* initializePinecone and the request handler POST, as a state machine     *)
(* whose steps are the suspension points (await) of the handler.  Several  *)
(* requests run interleaved on the single event loop: between two awaits    *)
(* a request runs alone, which is one action here.                         *)
(***************************************************************************)
EXTENDS Integers, Sequences, FiniteSets, TLC

\* ------------------------------------------------------------------ bounds
\* Number of requests the process serves in a run.
NumReqs == 2
\* route.ts:69-70 sets chunkSize 1000 and chunkOverlap 200, and route.ts:81
\* batches by 100; the model keeps their roles and scales them down.
ChunkSize == 3
ChunkOverlap == 1
BatchSize == 2

\* The longest text the splitter is given when it is checked on its own.
MaxTextLen == 5

\* route.ts:120
TopK == 5

Reqs == 1..NumReqs

\* ------------------------------------------------------------- characters
\* Text is a sequence of character codes.
Whitespace == {9, 10, 13, 32}
NewLine == <<10>>

\* String.prototype.trim, as the spec's "whitespace-only" reads a query.
RECURSIVE trimStart(_)
trimStart(s) ==
    IF s # <<>> /\ Head(s) \in Whitespace THEN trimStart(Tail(s)) ELSE s

RECURSIVE trimEnd(_)
trimEnd(s) ==
    IF s # <<>> /\ s[Len(s)] \in Whitespace
    THEN trimEnd(SubSeq(s, 1, Len(s) - 1))
    ELSE s

trim(s) == trimEnd(trimStart(s))

\* --------------------------------------------------------------- documents
\* The static document at PDF_PATH: whether the file exists, whether pdf-parse
\* resolves on its bytes, and the text pdf-parse extracts.
\* A text of three chunks (two windows past the first), which is two batches.
LongLen == ChunkSize + (ChunkSize - ChunkOverlap) + (ChunkSize - ChunkOverlap)
LongText == [k \in 1..LongLen |-> 96 + k]
ShortText == <<120, 121>>
BlankText == <<32>>

Docs ==
    { [exists |-> FALSE, parses |-> FALSE, text |-> <<>>],
      [exists |-> TRUE,  parses |-> FALSE, text |-> <<>>],
      [exists |-> TRUE,  parses |-> TRUE,  text |-> <<>>],
      [exists |-> TRUE,  parses |-> TRUE,  text |-> BlankText],
      [exists |-> TRUE,  parses |-> TRUE,  text |-> ShortText],
      [exists |-> TRUE,  parses |-> TRUE,  text |-> LongText] }

\* The query strings a request body {query: string} may carry.
Queries == { <<>>, <<32>>, <<113>> }

\* ------------------------------------------------------------------ errors
\* An Error's message is a sequence of the texts the handlers chain with ": ".
\* error instanceof Error ? error.message : 'Unknown error occurred'
errorMessage(error) ==
    IF error.isError THEN error.message ELSE <<"Unknown error occurred">>

Error(message) == [isError |-> TRUE, message |-> message]

\* route.ts:51-55, the catch of processPDF
processPDFCatch(error) ==
    Error(<<"Failed to process PDF">> \o errorMessage(error))

\* route.ts:100-104, the catch of initializePinecone
initializePineconeCatch(error) ==
    Error(<<"Initialization failed">> \o errorMessage(error))

\* route.ts:155-161, the catch of POST
POSTCatch(error) ==
    [status |-> 500, kind |-> "error",
     text |-> <<"Failed to process request">> \o errorMessage(error)]

NoResponse == [status |-> 0, kind |-> "none", text |-> <<>>]

\* ---------------------------------------------------------------- splitter
\* RecursiveCharacterTextSplitter({chunkSize, chunkOverlap}).createDocuments,
\* the library call of route.ts:68-73, by what the library does: it picks the
\* first separator the text contains, splits before each occurrence of it
\* (the separator is kept), splits longer pieces again with the separators
\* left, and merges the short pieces into chunks of at most chunkSize
\* characters that overlap by at most chunkOverlap; a chunk is trimmed and an
\* empty one is dropped.
Separators == << <<10, 10>>, <<10>>, <<32>>, <<>> >>

includes(text, sep) ==
    \E p \in 1..(Len(text) - Len(sep) + 1) :
        SubSeq(text, p, p + Len(sep) - 1) = sep

\* text.split(/(?=sep)/), or text.split("") for the empty separator
RECURSIVE cutAt(_, _, _)
cutAt(text, from, sep) ==
    LET next == { p \in (from + 1)..(Len(text) - Len(sep) + 1) :
                    SubSeq(text, p, p + Len(sep) - 1) = sep }
    IN  IF next = {}
        THEN << SubSeq(text, from, Len(text)) >>
        ELSE LET p == CHOOSE q \in next : \A o \in next : q <= o
             IN  << SubSeq(text, from, p - 1) >> \o cutAt(text, p, sep)

splitOnSeparator(text, sep) ==
    IF text = <<>> THEN <<>>
    ELSE IF sep = <<>> THEN [k \in 1..Len(text) |-> << text[k] >>]
    ELSE cutAt(text, 1, sep)

RECURSIVE concat(_)
concat(pieces) ==
    IF pieces = <<>> THEN <<>> ELSE Head(pieces) \o concat(Tail(pieces))

RECURSIVE totalLen(_)
totalLen(pieces) ==
    IF pieces = <<>> THEN 0 ELSE Len(Head(pieces)) + totalLen(Tail(pieces))

\* joinDocs: docs.join("").trim(), null (here no chunk) when empty
joinDocs(currentDoc) ==
    LET text == trim(concat(currentDoc))
    IN  IF text = <<>> THEN <<>> ELSE << text >>

\* (a variant that keeps nothing of the chunk it has emitted)
RECURSIVE shiftDoc_all(_, _)
shiftDoc_all(currentDoc, len) ==
    IF currentDoc # <<>> THEN shiftDoc_all(Tail(currentDoc), len) ELSE currentDoc

\* while (total > chunkOverlap || (total + len > chunkSize && total > 0)) shift
RECURSIVE shiftDoc(_, _)
shiftDoc(currentDoc, len) ==
    LET total == totalLen(currentDoc)
    IN  IF total > ChunkOverlap \/ (total + len > ChunkSize /\ total > 0)
        THEN shiftDoc(Tail(currentDoc), len)
        ELSE currentDoc

RECURSIVE mergeFrom(_, _)
mergeFrom(splits, currentDoc) ==
    IF splits = <<>> THEN joinDocs(currentDoc)
    ELSE LET d == Head(splits)
         IN  IF totalLen(currentDoc) + Len(d) > ChunkSize /\ currentDoc # <<>>
             THEN joinDocs(currentDoc)
                    \o mergeFrom(Tail(splits),
                                 Append(shiftDoc(currentDoc, Len(d)), d))
             ELSE mergeFrom(Tail(splits), Append(currentDoc, d))

mergeSplits(splits) == mergeFrom(splits, <<>>)

RECURSIVE splitText(_, _)
RECURSIVE splitPieces(_, _, _)
\* the loop over the pieces: short ones are collected and merged, a long one
\* is split again with the separators left
splitPieces(splits, goodSplits, newSeparators) ==
    IF splits = <<>>
    THEN IF goodSplits # <<>> THEN mergeSplits(goodSplits) ELSE <<>>
    ELSE LET s == Head(splits)
         IN  IF Len(s) < ChunkSize
             THEN splitPieces(Tail(splits), Append(goodSplits, s), newSeparators)
             ELSE (IF goodSplits # <<>> THEN mergeSplits(goodSplits) ELSE <<>>)
                    \o (IF newSeparators = <<>>
                        THEN << s >>
                        ELSE splitText(s, newSeparators))
                    \o splitPieces(Tail(splits), <<>>, newSeparators)

splitText(text, separators) ==
    LET found == { k \in 1..Len(separators) :
                     separators[k] = <<>> \/ includes(text, separators[k]) }
        k == CHOOSE j \in found : \A o \in found : j <= o
        separator == separators[k]
        newSeparators == IF separator = <<>> THEN <<>>
                         ELSE SubSeq(separators, k + 1, Len(separators))
    IN  splitPieces(splitOnSeparator(text, separator), <<>>, newSeparators)

\* chunks = await splitter.createDocuments([pdfText]); a chunk is its pageContent
createDocuments(pdfText) == splitText(pdfText, Separators)

\* ------------------------------------------------------------------- state
VARIABLES
    doc,            \* the document at PDF_PATH (static)
    isInitialized,  \* route.ts:9
    store,          \* the records of the Pinecone index
    pc,             \* per request: the await its handler is suspended at
    query,          \* per request: const { query } of POST
    chunks,         \* per request: const chunks of initializePinecone
    i,              \* per request: the loop variable of route.ts:81
    pending,        \* per request: indexes of the batch whose embedQuery is in flight
    batchVectors,   \* per request: index -> vector, of the callbacks that returned
    queryResponse,  \* per request: the matches index.query resolved with
    context,        \* per request: const context of POST
    response,       \* per request: the NextResponse returned
    log             \* per request: the calls it made, in order (history)

vars == << doc, isInitialized, store, pc, query, chunks, i, pending,
           batchVectors, queryResponse, context, response, log >>

\* a call made by a request: op names the callee, arg the ordinal or batch start
Call(op, arg) == [op |-> op, arg |-> arg]

\* embeddings.embedQuery(text): the service's vector for a text
embedQuery(text) == << "vector", text >>

\* (a variant that numbers the chunks within their batch)
chunkId_inBatch(iv, index) == index

\* id: `chunk_${i + index}`
chunkId(iv, index) == iv + index

\* the object the map callback of route.ts:84-91 returns
vectorOf(chs, iv, index) ==
    [ id |-> chunkId(iv, index),
      values |-> embedQuery(chs[iv + index + 1]),
      metadata |-> chs[iv + index + 1] ]

\* (a variant that slices to the end of the chunks)
batchChunks_rest(chs, iv) == SubSeq(chs, iv + 1, Len(chs))

\* chunks.slice(i, i + 100)
batchChunks(chs, iv) ==
    SubSeq(chs, iv + 1, IF iv + BatchSize < Len(chs) THEN iv + BatchSize ELSE Len(chs))

\* (a variant that inserts: every record gets the next free id of the store)
upsert_insert(st, records) ==
    st \cup { [rec EXCEPT !.id = rec.id + Cardinality(st)] : rec \in records }

\* index.upsert(records): a record with the id of an old one replaces it
upsert(st, records) ==
    { rec \in st : \A new \in records : new.id # rec.id } \cup records

Init ==
    /\ doc \in Docs
    /\ isInitialized = FALSE
    /\ store = {}
    /\ pc = [r \in Reqs |-> "idle"]
    /\ query = [r \in Reqs |-> <<>>]
    /\ chunks = [r \in Reqs |-> <<>>]
    /\ i = [r \in Reqs |-> 0]
    /\ pending = [r \in Reqs |-> {}]
    /\ batchVectors = [r \in Reqs |-> <<>>]
    /\ queryResponse = [r \in Reqs |-> <<>>]
    /\ context = [r \in Reqs |-> <<>>]
    /\ response = [r \in Reqs |-> NoResponse]
    /\ log = [r \in Reqs |-> <<>>]

\* ----------------------------------------------------------- control flow
\* return NextResponse.json(...): the request is over, its locals are gone
respond(r, res, lg) ==
    /\ pc' = [pc EXCEPT ![r] = "done"]
    /\ response' = [response EXCEPT ![r] = res]
    /\ log' = [log EXCEPT ![r] = Append(lg, Call("respond", res.status))]
    /\ queryResponse' = [queryResponse EXCEPT ![r] = <<>>]
    /\ context' = [context EXCEPT ![r] = <<>>]
    /\ query' = [query EXCEPT ![r] = <<>>]

\* initializePinecone is left, by return or by throw: its locals are gone
leaveBuild(r) ==
    /\ chunks' = [chunks EXCEPT ![r] = <<>>]
    /\ i' = [i EXCEPT ![r] = 0]
    /\ pending' = [pending EXCEPT ![r] = {}]
    /\ batchVectors' = [batchVectors EXCEPT ![r] = <<>>]

\* (a variant whose catch takes the flag back)
buildThrows_resets(r, error, lg) ==
    /\ respond(r, POSTCatch(initializePineconeCatch(error)), lg)
    /\ leaveBuild(r)
    /\ isInitialized' = FALSE

\* (a variant whose catch throws the error on as it is)
buildThrows_rethrows(r, error, lg) ==
    /\ respond(r, POSTCatch(error), lg)
    /\ leaveBuild(r)
    /\ UNCHANGED isInitialized

\* an error thrown inside the try of initializePinecone: its catch wraps it
\* and the catch of POST answers
buildThrows(r, error, lg) ==
    /\ respond(r, POSTCatch(initializePineconeCatch(error)), lg)
    /\ leaveBuild(r)
    /\ UNCHANGED isInitialized

\* (a variant whose catch takes the flag back, for the next request to rebuild)
queryPathThrows_resets(r, error, lg) ==
    /\ respond(r, POSTCatch(error), lg)
    /\ isInitialized' = FALSE
    /\ UNCHANGED << doc, store, chunks, i, pending, batchVectors >>

\* (a variant whose catch starts the query path again)
queryPathThrows_retries(r, error, lg) ==
    /\ pc' = [pc EXCEPT ![r] = "json"]
    /\ log' = [log EXCEPT ![r] = Append(lg, Call("req.json", 0))]
    /\ UNCHANGED << doc, isInitialized, store, chunks, i, pending,
                    batchVectors, response, context, queryResponse, query >>

\* an error thrown on the query path of POST: the catch of POST answers
queryPathThrows(r, error, lg) ==
    /\ respond(r, POSTCatch(error), lg)
    /\ UNCHANGED << doc, isInitialized, store, chunks, i, pending,
                    batchVectors >>

\* initializePinecone returned: POST goes on to await req.json()
initialized(r, lg) ==
    /\ pc' = [pc EXCEPT ![r] = "json"]
    /\ log' = [log EXCEPT ![r] = Append(lg, Call("req.json", 0))]
    /\ leaveBuild(r)
    /\ UNCHANGED << response, context, queryResponse, query >>

\* (a variant that sets the flag when the last batch starts)
forLoop_readyEarly(r, iv, chs, lg) ==
    IF iv < Len(chs)
    THEN LET n == Len(batchChunks(chs, iv))
         IN  /\ chunks' = [chunks EXCEPT ![r] = chs]
             /\ i' = [i EXCEPT ![r] = iv]
             /\ pending' = [pending EXCEPT ![r] = 0..(n - 1)]
             /\ batchVectors' = [batchVectors EXCEPT ![r] = <<>>]
             /\ pc' = [pc EXCEPT ![r] = "embed"]
             /\ log' = [log EXCEPT ![r] =
                          lg \o [k \in 1..n |-> Call("embedQuery", iv + k - 1)]]
             /\ isInitialized' = (isInitialized \/ iv + BatchSize >= Len(chs))
             /\ UNCHANGED << response, context, queryResponse, query >>
    ELSE /\ isInitialized' = TRUE
         /\ initialized(r, lg)

\* the for loop of route.ts:81 at its test, with i = iv: either the next batch
\* starts, every embedQuery of it called at once by the map, or the loop is
\* over and the flag is set
forLoop(r, iv, chs, lg) ==
    IF iv < Len(chs)
    THEN LET n == Len(batchChunks(chs, iv))
         IN  /\ chunks' = [chunks EXCEPT ![r] = chs]
             /\ i' = [i EXCEPT ![r] = iv]
             /\ pending' = [pending EXCEPT ![r] = 0..(n - 1)]
             /\ batchVectors' = [batchVectors EXCEPT ![r] = <<>>]
             /\ pc' = [pc EXCEPT ![r] = "embed"]
             /\ log' = [log EXCEPT ![r] =
                          lg \o [k \in 1..n |-> Call("embedQuery", iv + k - 1)]]
             /\ UNCHANGED << isInitialized, response, context, queryResponse,
                             query >>
    ELSE /\ isInitialized' = TRUE
         /\ initialized(r, lg)

\* ------------------------------------------------------- initializePinecone
\* (a variant without the test of the flag)
POST_noGate(r) ==
    /\ pc[r] = "idle"
    /\ IF ~doc.exists
       THEN buildThrows(r,
                processPDFCatch(Error(<<"PDF file not found at path">>)),
                Append(log[r], Call("existsSync", 0)))
       ELSE /\ pc' = [pc EXCEPT ![r] = "pdf"]
            /\ log' = [log EXCEPT ![r] =
                         log[r] \o << Call("existsSync", 0),
                                      Call("readFileSync", 0),
                                      Call("pdf", 0) >>]
            /\ UNCHANGED << isInitialized, chunks, i, pending, batchVectors,
                            context, queryResponse, response, query >>
    /\ UNCHANGED << doc, store >>

\* POST is called with a request: initializePinecone tests the flag and, when
\* it is not set, processPDF looks for the file and reads it (synchronously)
\* and calls pdf(dataBuffer), the first await.
POST(r) ==
    /\ pc[r] = "idle"
    /\ IF isInitialized
       THEN /\ initialized(r, log[r])
            /\ UNCHANGED isInitialized
       ELSE IF ~doc.exists
       THEN buildThrows(r,
                processPDFCatch(Error(<<"PDF file not found at path">>)),
                Append(log[r], Call("existsSync", 0)))
       ELSE /\ pc' = [pc EXCEPT ![r] = "pdf"]
            /\ log' = [log EXCEPT ![r] =
                         log[r] \o << Call("existsSync", 0),
                                      Call("readFileSync", 0),
                                      Call("pdf", 0) >>]
            /\ UNCHANGED << isInitialized, chunks, i, pending, batchVectors,
                            context, queryResponse, response, query >>
    /\ UNCHANGED << doc, store >>

\* (a variant that returns data.text unchecked)
pdfResolved_unchecked(r) ==
    /\ pc[r] = "pdf"
    /\ doc.parses
    /\ forLoop(r, 0, createDocuments(doc.text),
               Append(log[r], Call("createDocuments", 0)))
    /\ UNCHANGED << doc, store >>

\* pdf(dataBuffer) resolves: the text is checked, split, and the loop starts
pdfResolved(r) ==
    /\ pc[r] = "pdf"
    /\ doc.parses
    /\ IF doc.text = <<>>
       THEN buildThrows(r,
                processPDFCatch(Error(<<"Failed to extract text from PDF">>)),
                log[r])
       ELSE forLoop(r, 0, createDocuments(doc.text),
                    Append(log[r], Call("createDocuments", 0)))
    /\ UNCHANGED << doc, store >>

\* pdf(dataBuffer) rejects
pdfRejected(r) ==
    /\ pc[r] = "pdf"
    /\ ~doc.parses
    /\ buildThrows(r, processPDFCatch(Error(<<"Invalid PDF structure">>)), log[r])
    /\ UNCHANGED << doc, store >>

\* (a variant that does not await the upsert: the loop goes on at once)
embedResolved_noAwait(r, index) ==
    /\ pc[r] = "embed"
    /\ index \in pending[r]
    /\ IF pending[r] = {index}
       THEN forLoop(r, i[r] + BatchSize, chunks[r],
                    Append(log[r], Call("upsert", i[r])))
       ELSE /\ pending' = [pending EXCEPT ![r] = @ \ {index}]
            /\ batchVectors' = [batchVectors EXCEPT ![r] =
                                  [k \in (DOMAIN @) \cup {index} |->
                                     IF k = index
                                     THEN vectorOf(chunks[r], i[r], index)
                                     ELSE @[k]]]
            /\ UNCHANGED << pc, log, isInitialized, query, chunks, i, context,
                            queryResponse, response >>
    /\ UNCHANGED << doc, store >>

\* (a variant that numbers the records of a batch as their embeddings arrive)
embedResolved_arrivalId(r, index) ==
    /\ pc[r] = "embed"
    /\ index \in pending[r]
    /\ pending' = [pending EXCEPT ![r] = @ \ {index}]
    /\ batchVectors' = [batchVectors EXCEPT ![r] =
                          [k \in (DOMAIN @) \cup {index} |->
                             IF k = index
                             THEN [vectorOf(chunks[r], i[r], index) EXCEPT
                                     !.id = chunkId(i[r], Cardinality(DOMAIN
                                                batchVectors[r]))]
                             ELSE @[k]]]
    /\ IF pending[r] = {index}
       THEN /\ pc' = [pc EXCEPT ![r] = "upsert"]
            /\ log' = [log EXCEPT ![r] = Append(@, Call("upsert", i[r]))]
       ELSE UNCHANGED << pc, log >>
    /\ UNCHANGED << doc, isInitialized, store, query, chunks, i, context,
                    queryResponse, response >>

\* one embedQuery of the batch resolves and its callback returns its vector;
\* when it is the last one, Promise.all resolves and the batch is upserted
embedResolved(r, index) ==
    /\ pc[r] = "embed"
    /\ index \in pending[r]
    /\ pending' = [pending EXCEPT ![r] = @ \ {index}]
    /\ batchVectors' = [batchVectors EXCEPT ![r] =
                          [k \in (DOMAIN @) \cup {index} |->
                             IF k = index THEN vectorOf(chunks[r], i[r], index)
                                          ELSE @[k]]]
    /\ IF pending[r] = {index}
       THEN /\ pc' = [pc EXCEPT ![r] = "upsert"]
            /\ log' = [log EXCEPT ![r] = Append(@, Call("upsert", i[r]))]
       ELSE UNCHANGED << pc, log >>
    /\ UNCHANGED << doc, isInitialized, store, query, chunks, i, context,
                    queryResponse, response >>

\* (a variant that settles the batch without the embedding that failed)
embedRejected_skips(r, index) ==
    /\ pc[r] = "embed"
    /\ index \in pending[r]
    /\ pending' = [pending EXCEPT ![r] = @ \ {index}]
    /\ IF pending[r] = {index}
       THEN /\ pc' = [pc EXCEPT ![r] = "upsert"]
            /\ log' = [log EXCEPT ![r] = Append(@, Call("upsert", i[r]))]
       ELSE UNCHANGED << pc, log >>
    /\ UNCHANGED << doc, isInitialized, store, query, chunks, i, batchVectors,
                    context, queryResponse, response >>

\* one embedQuery of the batch rejects: Promise.all rejects
embedRejected(r, index) ==
    /\ pc[r] = "embed"
    /\ index \in pending[r]
    /\ buildThrows(r, Error(<<"embedding request failed">>), log[r])
    /\ UNCHANGED << doc, store >>

\* index.upsert resolves: the records are in the store; the loop goes on
upsertResolved(r) ==
    /\ pc[r] = "upsert"
    /\ store' = upsert(store, { batchVectors[r][k] : k \in DOMAIN batchVectors[r] })
    /\ forLoop(r, i[r] + BatchSize, chunks[r],
               Append(log[r], Call("upserted", i[r])))
    /\ UNCHANGED doc

\* index.upsert rejects, before the store took the batch or after it
upsertRejected(r, applied) ==
    /\ pc[r] = "upsert"
    /\ store' = IF applied
                THEN upsert(store,
                            { batchVectors[r][k] : k \in DOMAIN batchVectors[r] })
                ELSE store
    /\ buildThrows(r, Error(<<"upsert request failed">>), log[r])
    /\ UNCHANGED doc

\* -------------------------------------------------------------- query path
\* req.json() resolves with the body, whose query is q; embedQuery(query) is
\* called
jsonResolved(r, q) ==
    /\ pc[r] = "json"
    /\ query' = [query EXCEPT ![r] = q]
    /\ pc' = [pc EXCEPT ![r] = "embedQuery"]
    /\ log' = [log EXCEPT ![r] = Append(@, Call("embedQuery(query)", 0))]
    /\ UNCHANGED << doc, isInitialized, store, chunks, i, pending,
                    batchVectors, context, queryResponse, response >>

\* req.json() rejects: the body is no JSON
jsonRejected(r) ==
    /\ pc[r] = "json"
    /\ queryPathThrows(r, Error(<<"Unexpected token in JSON">>), log[r])

\* embedQuery(query) resolves; index.query is called
queryEmbedResolved(r) ==
    /\ pc[r] = "embedQuery"
    /\ pc' = [pc EXCEPT ![r] = "query"]
    /\ log' = [log EXCEPT ![r] = Append(@, Call("query", TopK))]
    /\ UNCHANGED << doc, isInitialized, store, query, chunks, i, pending,
                    batchVectors, context, queryResponse, response >>

queryEmbedRejected(r) ==
    /\ pc[r] = "embedQuery"
    /\ queryPathThrows(r, Error(<<"embedding request failed">>), log[r])

\* what index.query({topK}) may resolve with: the topK nearest records, or all
\* of them when the store holds fewer, in the rank order the store gives them
RECURSIVE orders(_, _)
orders(st, n) ==
    IF n = 0 \/ st = {} THEN { <<>> }
    ELSE UNION { { << first >> \o rest : rest \in orders(st \ {first}, n - 1) } :
                 first \in st }

Rankings(st) == orders(st, TopK)

\* Array.prototype.join('\n')
RECURSIVE join(_)
join(texts) ==
    IF texts = <<>> THEN <<>>
    ELSE IF Len(texts) = 1 THEN texts[1]
    ELSE texts[1] \o NewLine \o join(Tail(texts))

\* (a variant that lists the matches last to first)
contextOf_reversed(matches) ==
    join([k \in 1..Len(matches) |-> matches[Len(matches) + 1 - k].metadata])

\* queryResponse.matches?.map(match => match.metadata?.text).join('\n')
contextOf(matches) == join([k \in 1..Len(matches) |-> matches[k].metadata])

\* index.query resolves; the context is composed and the completion fetched
queryResolved(r, matches) ==
    /\ pc[r] = "query"
    /\ matches \in Rankings(store)
    /\ queryResponse' = [queryResponse EXCEPT ![r] = matches]
    /\ context' = [context EXCEPT ![r] = contextOf(matches)]
    /\ pc' = [pc EXCEPT ![r] = "completion"]
    /\ log' = [log EXCEPT ![r] = Append(@, Call("fetch", 0))]
    /\ UNCHANGED << doc, isInitialized, store, query, chunks, i, pending,
                    batchVectors, response >>

queryRejected(r) ==
    /\ pc[r] = "query"
    /\ queryPathThrows(r, Error(<<"query request failed">>), log[r])

\* The JSON the completion service may answer with: a completion with its
\* text, one whose message has no content (null), an empty choices list, and
\* an error body, which has no choices.
Completions ==
    { [hasChoices |-> TRUE,
       choices |-> << [hasContent |-> TRUE, content |-> <<"answer">>] >>],
      [hasChoices |-> TRUE,
       choices |-> << [hasContent |-> FALSE, content |-> <<>>] >>],
      [hasChoices |-> TRUE, choices |-> <<>>],
      [hasChoices |-> FALSE, choices |-> <<>>] }

\* completion.choices[0].message.content throws a TypeError when choices or
\* choices[0] is undefined
contentThrows(completion) ==
    ~completion.hasChoices \/ completion.choices = <<>>

\* NextResponse.json({ answer: completion.choices[0].message.content })
answerResponse(completion) ==
    LET message == completion.choices[1]
    IN  IF message.hasContent
        THEN [status |-> 200, kind |-> "answer", text |-> message.content]
        ELSE [status |-> 200, kind |-> "empty", text |-> <<>>]

\* fetch(...).then(res => res.json()) resolves with the service's JSON
completionResolved(r, completion) ==
    /\ pc[r] = "completion"
    /\ completion \in Completions
    /\ IF contentThrows(completion)
       THEN queryPathThrows(r,
                Error(<<"Cannot read properties of undefined">>), log[r])
       ELSE /\ respond(r, answerResponse(completion), log[r])
            /\ UNCHANGED << doc, isInitialized, store, chunks, i,
                            pending, batchVectors >>

\* fetch rejects, or the body of the answer is no JSON
completionRejected(r) ==
    /\ pc[r] = "completion"
    /\ queryPathThrows(r, Error(<<"fetch failed">>), log[r])

\* -------------------------------------------------------------------- spec
Next ==
    \E r \in Reqs :
        \/ POST(r)
        \/ pdfResolved(r)
        \/ pdfRejected(r)
        \/ \E index \in 0..(BatchSize - 1) : embedResolved(r, index)
        \/ \E index \in 0..(BatchSize - 1) : embedRejected(r, index)
        \/ upsertResolved(r)
        \/ \E applied \in BOOLEAN : upsertRejected(r, applied)
        \/ \E q \in Queries : jsonResolved(r, q)
        \/ jsonRejected(r)
        \/ queryEmbedResolved(r)
        \/ queryEmbedRejected(r)
        \/ \E matches \in Rankings(store) : queryResolved(r, matches)
        \/ queryRejected(r)
        \/ \E completion \in Completions : completionResolved(r, completion)
        \/ completionRejected(r)

Spec == Init /\ [][Next]_vars

\* ---------------------------------------------------- the splitter alone
\* The texts the splitter is run on: every text of letters, blanks and line
\* feeds up to MaxTextLen characters.
SplitAlphabet == { 97, 98, 32, 10 }

SplitTexts == UNION { [1..n -> SplitAlphabet] : n \in 0..MaxTextLen }

SplitInit ==
    /\ doc \in { [exists |-> TRUE, parses |-> TRUE, text |-> t] : t \in SplitTexts }
    /\ isInitialized = FALSE
    /\ store = {}
    /\ pc = [r \in Reqs |-> "idle"]
    /\ query = [r \in Reqs |-> <<>>]
    /\ chunks = [r \in Reqs |-> <<>>]
    /\ i = [r \in Reqs |-> 0]
    /\ pending = [r \in Reqs |-> {}]
    /\ batchVectors = [r \in Reqs |-> <<>>]
    /\ queryResponse = [r \in Reqs |-> <<>>]
    /\ context = [r \in Reqs |-> <<>>]
    /\ response = [r \in Reqs |-> NoResponse]
    /\ log = [r \in Reqs |-> <<>>]

\* const chunks = await splitter.createDocuments([pdfText]), on its own
splitStep(r) ==
    /\ pc[r] = "idle"
    /\ chunks' = [chunks EXCEPT ![r] = createDocuments(doc.text)]
    /\ pc' = [pc EXCEPT ![r] = "split"]
    /\ log' = [log EXCEPT ![r] = Append(@, Call("createDocuments", 0))]
    /\ UNCHANGED << doc, isInitialized, store, query, i, pending, batchVectors,
                    queryResponse, context, response >>

SplitNext == \E r \in Reqs : splitStep(r)

SpecSplit == SplitInit /\ [][SplitNext]_vars

\* ------------------------------------------------------- reading the state
\* the number of times request r made the call c
countCalls(r, c) == Cardinality({ k \in DOMAIN log[r] : log[r][k] = c })

\* request r made a call of the kind op
called(r, op) == \E k \in DOMAIN log[r] : log[r][k].op = op

\* r found the flag false and ran the build (processPDF read the document)
ranBuild(r) == called(r, "existsSync")

\* initializePinecone returned to r without throwing
passedGate(r) == called(r, "req.json")

\* r ran a build and the build set the flag
buildSucceeded(r) == ranBuild(r) /\ passedGate(r)

\* the calls that belong to a build
BuildOps == { "existsSync", "readFileSync", "pdf", "createDocuments",
              "embedQuery", "upsert", "upserted" }

\* the passages of the document and the record each one is indexed as
PassagesOf ==
    [d \in Docs |->
        IF d.exists /\ d.parses THEN createDocuments(d.text) ELSE <<>>]

Passages == PassagesOf[doc]

RecordOf(k) ==
    [ id |-> k, values |-> embedQuery(Passages[k + 1]),
      metadata |-> Passages[k + 1] ]

AllRecords == { RecordOf(k) : k \in 0..(Len(Passages) - 1) }

\* the starts of the batches of the document
BatchStarts == { b \in 0..Len(Passages) : b < Len(Passages) /\ b % BatchSize = 0 }

AllResolved == \A r \in Reqs : pc[r] = "done"

InitFailed(res) ==
    /\ res.kind = "error"
    /\ Len(res.text) > 2
    /\ SubSeq(res.text, 1, 2) = << "Failed to process request", "Initialization failed" >>

\* -------------------------------------------------------------------- C1
\* C1 (as claimed): of two requests that both found the flag false and ran
\* the build, only one issues upsert calls: each batch is upserted once in
\* total, not once per request.
C1_OneSetOfUpserts ==
    \A r1, r2 \in Reqs :
        (r1 # r2 /\ ranBuild(r1) /\ ranBuild(r2)) =>
            \A b \in BatchStarts :
                countCalls(r1, Call("upsert", b)) + countCalls(r2, Call("upsert", b)) <= 1

\* -------------------------------------------------------------------- C2
\* C2 (as claimed): once every request has run its build and resolved, by
\* success or by failure, the store holds exactly one record per passage.
C2_AllPassagesOnceResolved ==
    (AllResolved /\ \A r \in Reqs : ranBuild(r)) => store = AllRecords

\* C2 (amended): once every request has run its build and resolved, no two
\* records of the store share an id and every record is the record of its
\* passage; when at least one of the builds succeeded, every passage has its
\* record.
C2_OneRecordPerPassage ==
    (AllResolved /\ \A r \in Reqs : ranBuild(r)) =>
        /\ \A a, b \in store : a.id = b.id => a = b
        /\ store \subseteq AllRecords
        /\ (\E r \in Reqs : buildSucceeded(r)) => store = AllRecords

\* every request ran the build to its end, over both batches
C2_Witness ==
    /\ AllResolved
    /\ \A r \in Reqs : buildSucceeded(r) /\ called(r, "upserted")
    /\ Cardinality(store) > BatchSize

\* -------------------------------------------------------------------- C3
\* C3: once isInitialized is true, no step sets it back to false.
C3_ReadinessMonotonic == [][isInitialized => isInitialized']_vars

\* the flag is set, a build that ran beside the one that set it has failed
\* and another request failed on the query path
C3_Witness ==
    /\ isInitialized
    /\ \E r \in Reqs : pc[r] = "done" /\ InitFailed(response[r])
    /\ \E r \in Reqs : pc[r] = "done" /\ passedGate(r) /\ response[r].kind = "error"

\* -------------------------------------------------------------------- C4
\* C4: whenever isInitialized is true, the store holds the record of every
\* passage of the document: the flag is never true over a store that lacks
\* a batch.
C4_ReadyImpliesIndexed == isInitialized => AllRecords \subseteq store

C4_Witness ==
    /\ isInitialized
    /\ Cardinality(AllRecords) > BatchSize
    /\ \E r \in Reqs : pc[r] = "done" /\ InitFailed(response[r])

\* -------------------------------------------------------------------- C5
\* r is inside the build: it found the flag false and has not left
\* initializePinecone
inBuild(r) == pc[r] \in { "pdf", "embed", "upsert" }

\* C5: a build that fails at any step ends its request in that step with an
\* error that wraps the cause ("Initialization failed" and then the cause's
\* message), leaves the flag as it was and makes no further call (no retry);
\* a finished request never runs again; and a request that finds the flag
\* false runs the whole build: it reads the document, splits it, and starts
\* the loop at the first batch.
C5_FailedBuildAbortsAndNextRetries ==
    [][\A r \in Reqs :
        /\ ( /\ pc'[r] = "done"
             /\ \/ inBuild(r)
                \/ pc[r] = "idle" /\ ~isInitialized )
           => /\ isInitialized' = isInitialized
              /\ InitFailed(response'[r])
              /\ response'[r].status = 500
              /\ \E lg \in { log[r], Append(log[r], Call("existsSync", 0)) } :
                    log'[r] = Append(lg, Call("respond", 500))
        /\ pc[r] = "done" => (pc'[r] = "done" /\ log'[r] = log[r])
        /\ (pc[r] = "idle" /\ pc'[r] # "idle" /\ ~isInitialized)
           => (ranBuild(r)' /\ pc'[r] \in { "pdf", "done" })
        /\ (pc[r] = "pdf" /\ pc'[r] = "embed")
           => /\ i'[r] = 0
              /\ chunks'[r] = createDocuments(doc.text)
              /\ pending'[r] = 0..(Len(batchChunks(chunks'[r], 0)) - 1)
              /\ countCalls(r, Call("embedQuery", 0))' = 1
    ]_vars

\* a build failed in its second batch, after its first batch was written,
\* and the next request, finding the flag false, is back at the first batch
C5_Witness ==
    /\ ~isInitialized
    /\ \E r1, r2 \in Reqs :
        /\ pc[r1] = "done" /\ InitFailed(response[r1])
        /\ called(r1, "upserted")
        /\ pc[r2] = "embed" /\ i[r2] = 0
        /\ Cardinality(store) = BatchSize

\* -------------------------------------------------------------------- C6
\* C6: a request that finds isInitialized true leaves initializePinecone in
\* the same step, with the store and the flag unchanged, and makes none of
\* the calls of a build, then or later: no document read, no split, no
\* embedding of a passage, no upsert.
C6_ReadyIsNoOp ==
    /\ [][\A r \in Reqs :
            (pc[r] = "idle" /\ pc'[r] # "idle" /\ isInitialized)
            => /\ pc'[r] = "json"
               /\ log'[r] = << Call("req.json", 0) >>
               /\ store' = store
               /\ isInitialized'
               /\ chunks'[r] = <<>> /\ pending'[r] = {}
       ]_vars
    /\ [](\A r \in Reqs :
            (log[r] # <<>> /\ log[r][1].op = "req.json")
            => \A k \in DOMAIN log[r] : log[r][k].op \notin BuildOps)

\* a request that found the flag true has been answered
C6_Witness ==
    \E r \in Reqs :
        /\ pc[r] = "done"
        /\ log[r][1].op = "req.json"
        /\ response[r].kind = "answer"

\* -------------------------------------------------------------------- C7
\* the position of the first call c in the log of r (0 when there is none)
firstCall(r, c) ==
    IF \E k \in DOMAIN log[r] : log[r][k] = c
    THEN CHOOSE k \in DOMAIN log[r] :
            log[r][k] = c /\ \A o \in 1..(k - 1) : log[r][o] # c
    ELSE 0

\* C7: within one build, an embedding call for a passage of a batch is made
\* only after the upsert of every earlier batch has completed, and no batch
\* is upserted twice; a build that succeeded has upserted every batch once.
C7_BatchesSequential ==
    \A r \in Reqs :
        /\ \A k \in DOMAIN log[r] :
              log[r][k].op = "embedQuery" =>
                 \A b \in BatchStarts :
                    b + BatchSize <= log[r][k].arg =>
                       /\ firstCall(r, Call("upserted", b)) > 0
                       /\ firstCall(r, Call("upserted", b)) < k
        /\ \A b \in BatchStarts :
              /\ countCalls(r, Call("upsert", b)) <= 1
              /\ countCalls(r, Call("upserted", b)) <= countCalls(r, Call("upsert", b))
              /\ buildSucceeded(r) => countCalls(r, Call("upsert", b)) = 1

\* a build is embedding its second batch
C7_Witness ==
    \E r \in Reqs : pc[r] = "embed" /\ i[r] = BatchSize /\ pending[r] # {}

\* -------------------------------------------------------------------- C8
\* the stages in which the query of r has been handed to a service
QueryInService == { "embedQuery", "query", "completion" }

\* C8 (as claimed): a query that is empty or only whitespace is rejected
\* when it is read: it is never handed to the embedding service, the store
\* query or the completion service.
C8_BlankQueryNotPassedOn ==
    \A r \in Reqs : pc[r] \in QueryInService => trim(query[r]) # <<>>

\* -------------------------------------------------------------------- C9
\* C9 (as claimed): a finished request has returned exactly one response,
\* which is an answer text with status 200 or an error with a status that
\* is not 2xx; a completion result without an answer text is a failure and
\* gives the error.
C9_AnswerOrError ==
    \A r \in Reqs :
        pc[r] = "done" =>
            /\ Cardinality({ k \in DOMAIN log[r] : log[r][k].op = "respond" }) = 1
            /\ \/ response[r].kind = "answer" /\ response[r].status = 200
               \/ response[r].kind = "error" /\ response[r].status \notin 200..299

\* ------------------------------------------------------------------- C10
\* C10: the step in which a request fails on its query path (the query
\* embedding, the store query, the completion) answers {error} with status
\* 500 and changes neither the flag nor the store; and from the moment
\* initializePinecone returned to a request the flag is true, so it still
\* has the value it had after the request's index-builder step.
C10_QueryFailureLeavesIndex ==
    /\ [][\A r \in Reqs :
            (pc[r] \in QueryInService /\ pc'[r] = "done"
               /\ response'[r].kind = "error")
            => /\ isInitialized' = isInitialized
               /\ store' = store
               /\ response'[r].status = 500
               /\ ~InitFailed(response'[r])
       ]_vars
    /\ [](\A r \in Reqs : passedGate(r) => isInitialized)

\* a request failed at the store query, over a store of two batches
C10_Witness ==
    \E r \in Reqs :
        /\ pc[r] = "done"
        /\ response[r].text = << "Failed to process request", "query request failed" >>
        /\ isInitialized
        /\ Cardinality(store) > BatchSize


\* ------------------------------------------------------------------- C11
\* C11 (as claimed): when the split of the document's text yields no
\* passage, the build fails: the flag stays false (and no request is let
\* through to the query path).
C11_EmptySplitFails ==
    (doc.exists /\ doc.parses /\ doc.text # <<>> /\ Passages = <<>>)
        => (~isInitialized /\ \A r \in Reqs : ~passedGate(r))

\* ------------------------------------------------------------------- C12
\* the document is absent, cannot be parsed, or has no text
NoText == ~doc.exists \/ ~doc.parses \/ doc.text = <<>>

\* the calls to the embedding service and to the vector store
ServiceOps == { "embedQuery", "upsert", "upserted", "embedQuery(query)", "query" }

\* C12: when the document is absent, cannot be parsed, or yields an empty
\* text, every request ends in processPDF: it makes no embedding call and no
\* store call, the split is never run, the flag stays false, and the request
\* is answered with the error of the extraction wrapped by the build.
C12_NoTextNoServiceCall ==
    NoText =>
        /\ ~isInitialized
        /\ store = {}
        /\ \A r \in Reqs :
            /\ pc[r] \in { "idle", "pdf", "done" }
            /\ \A k \in DOMAIN log[r] :
                  log[r][k].op \notin ServiceOps \cup { "createDocuments", "fetch" }
            /\ pc[r] = "done" =>
                  /\ InitFailed(response[r])
                  /\ response[r].text[3] = "Failed to process PDF"
                  /\ response[r].status = 500

\* pdf-parse resolved with an empty text and the request was answered
C12_Witness ==
    /\ doc.exists /\ doc.parses /\ doc.text = <<>>
    /\ \E r \in Reqs : pc[r] = "done" /\ called(r, "pdf")


\* ------------------------------------------------------------------- C13
\* where the text of the k-th match starts in a context that lists the
\* matches in order, one per line (0-based offset)
RECURSIVE lineStart(_, _)
lineStart(matches, k) ==
    IF k = 1 THEN 0
    ELSE lineStart(matches, k - 1) + Len(matches[k - 1].metadata) + 1

\* the context lists the texts of the matches, each on its line, in order
listsInOrder(ctx, matches) ==
    LET n == Len(matches)
    IN  IF n = 0 THEN ctx = <<>>
        ELSE /\ Len(ctx) = lineStart(matches, n) + Len(matches[n].metadata)
             /\ \A k \in 1..n :
                  /\ SubSeq(ctx, lineStart(matches, k) + 1,
                            lineStart(matches, k) + Len(matches[k].metadata))
                        = matches[k].metadata
                  /\ k > 1 => ctx[lineStart(matches, k)] = 10

\* C13: while the completion is awaited, the context of the request is the
\* texts of the records index.query returned, joined by newlines in the rank
\* order returned: no match is left out, repeated or moved, and a single
\* match is the whole context.
C13_ContextInRankOrder ==
    \A r \in Reqs :
        pc[r] = "completion" =>
            /\ listsInOrder(context[r], queryResponse[r])
            /\ Len(queryResponse[r]) <= TopK
            /\ \A j, k \in DOMAIN queryResponse[r] :
                  j # k => queryResponse[r][j].id # queryResponse[r][k].id
            /\ Len(queryResponse[r]) = 1 =>
                  context[r] = queryResponse[r][1].metadata

\* the store ranked a later passage before an earlier one
C13_Witness ==
    \E r \in Reqs :
        /\ pc[r] = "completion"
        /\ Len(queryResponse[r]) >= 2
        /\ queryResponse[r][1].id > queryResponse[r][2].id

\* the store returned one record
C13_WitnessSingle ==
    \E r \in Reqs :
        /\ pc[r] = "completion"
        /\ Len(queryResponse[r]) = 1
        /\ context[r] = queryResponse[r][1].metadata


\* ------------------------------------------------------------------- C14
\* C14: once one build has run to its end the store holds exactly the record
\* of every passage, one per id, and whatever another build of the same
\* document upserts after that, started before or after the first one ended,
\* leaves the store as it is.
C14_SecondBuildChangesNothing ==
    /\ []((\E r \in Reqs : buildSucceeded(r)) =>
            /\ store = AllRecords
            /\ \A a, b \in store : a.id = b.id => a = b)
    /\ [][(\E r \in Reqs : buildSucceeded(r)) => store' = store]_vars

\* one build has ended and its request is answered, while another build of
\* the document is about to upsert its second batch
C14_Witness ==
    \E r1, r2 \in Reqs :
        /\ pc[r1] = "done" /\ buildSucceeded(r1) /\ called(r1, "upserted")
        /\ pc[r2] = "upsert" /\ i[r2] > 0
        /\ store = AllRecords


\* ------------------------------------------------------------------- C15
\* the stage a request is in: Indexing is the build, from the parse of the
\* document to the last upsert; Parsing is the await of req.json() between
\* the build and the embedding of the query; the context is composed in the
\* step that ends Retrieving
Stage(r) ==
    CASE pc[r] = "idle" -> "Idle"
      [] inBuild(r) -> "Indexing"
      [] pc[r] = "json" -> "Parsing"
      [] pc[r] = "embedQuery" -> "Embedding Query"
      [] pc[r] = "query" -> "Retrieving"
      [] pc[r] = "completion" -> "Generating Answer"
      [] pc[r] = "done" /\ response[r].kind = "error" -> "Failed"
      [] OTHER -> "Done"

\* the order of the stages: from each stage, the stages a step may lead to
StageOrder ==
    { << "Idle", "Indexing" >>, << "Idle", "Parsing" >>,
      << "Indexing", "Indexing" >>, << "Indexing", "Parsing" >>,
      << "Parsing", "Embedding Query" >>,
      << "Embedding Query", "Retrieving" >>,
      << "Retrieving", "Generating Answer" >>,
      << "Generating Answer", "Done" >> }
    \cup { << s, "Failed" >> : s \in { "Idle", "Indexing", "Parsing",
                                       "Embedding Query", "Retrieving",
                                       "Generating Answer" } }

\* a step in which request r fails: an await of r rejects, or what it
\* resolved with makes the handler throw
fails(r) ==
    /\ \/ POST(r)
       \/ pdfResolved(r)
       \/ pdfRejected(r)
       \/ \E index \in 0..(BatchSize - 1) : embedRejected(r, index)
       \/ upsertRejected(r, FALSE)
       \/ jsonRejected(r)
       \/ queryEmbedRejected(r)
       \/ queryRejected(r)
       \/ completionRejected(r)
    /\ pc'[r] = "done"
    /\ response'[r].kind = "error"

\* the parse of the document succeeds and gives a text
parses == doc.parses /\ doc.text # <<>>

\* C15: a request goes through the stages in their order and skips none but
\* Indexing (when the flag is set); the query is embedded only after
\* initializePinecone returned with the flag set, index.query is called only
\* after the query was embedded and the completion only after index.query
\* returned; every await of a stage can fail the request (the parse of a
\* document that has a text cannot, and leads to an await that can);
\* and a request that is done or failed takes no further step.
C15_StagesInOrder ==
    /\ [](\A r \in Reqs :
            /\ Stage(r) \in { "Parsing", "Embedding Query", "Retrieving",
                              "Generating Answer" }
                  => (passedGate(r) /\ isInitialized)
            /\ called(r, "embedQuery(query)") => passedGate(r)
            /\ called(r, "query") =>
                  (called(r, "embedQuery(query)") /\ pc[r] \notin { "json", "embedQuery" })
            /\ called(r, "fetch") =>
                  (called(r, "query") /\ pc[r] \in { "completion", "done" })
            /\ Stage(r) = "Done" => called(r, "fetch")
            /\ pc[r] \in { "embed", "upsert", "json", "embedQuery", "query",
                           "completion" } => ENABLED fails(r)
            /\ pc[r] = "pdf" => (parses \/ ENABLED fails(r))
            /\ pc[r] = "idle" => ENABLED POST(r))
    /\ [][\A r \in Reqs :
            /\ Stage(r)' # Stage(r) => << Stage(r), Stage(r)' >> \in StageOrder
            /\ pc'[r] # pc[r] => pc[r] # "done"
            /\ pc[r] = "done" =>
                  (response'[r] = response[r] /\ log'[r] = log[r])
            /\ (pc[r] = "pdf" /\ pc'[r] # "pdf" /\ parses)
                  => pc'[r] \in { "embed", "json" }
         ]_vars

\* one request went through every stage and is done, another took the short
\* way past Indexing and failed while the answer was generated
C15_Witness ==
    \E r1, r2 \in Reqs :
        /\ Stage(r1) = "Done" /\ ranBuild(r1) /\ called(r1, "upserted")
        /\ Stage(r2) = "Failed" /\ ~ranBuild(r2) /\ called(r2, "fetch")


\* ------------------------------------------------------------------- C16
\* the windows of at most ChunkSize characters that start every
\* ChunkSize - ChunkOverlap characters, up to the end of the text
numWindows(text) ==
    IF text = <<>> THEN 0
    ELSE IF Len(text) <= ChunkSize THEN 1
    ELSE ((Len(text) - ChunkSize) + (ChunkSize - ChunkOverlap) - 1)
            \div (ChunkSize - ChunkOverlap) + 1

windows(text) ==
    [k \in 1..numWindows(text) |->
        LET start == (k - 1) * (ChunkSize - ChunkOverlap)
        IN  SubSeq(text, start + 1,
                   IF start + ChunkSize < Len(text) THEN start + ChunkSize
                                                    ELSE Len(text))]

RECURSIVE located(_, _, _, _, _)
located(text, passages, k, from, covered) ==
    IF k > Len(passages)
    THEN \A q \in (covered + 1)..Len(text) : text[q] \in Whitespace
    ELSE LET p == passages[k]
         IN  \E o \in from..(Len(text) - Len(p) + 1) :
                /\ SubSeq(text, o, o + Len(p) - 1) = p
                /\ o + ChunkOverlap > covered
                /\ \A q \in (covered + 1)..(o - 1) : text[q] \in Whitespace
                /\ located(text, passages, k + 1, o,
                           IF o + Len(p) - 1 > covered THEN o + Len(p) - 1
                                                       ELSE covered)

hasWhitespace(text) == \E q \in DOMAIN text : text[q] \in Whitespace

C16_WitnessWindows ==
    \E r \in Reqs :
        /\ pc[r] = "split"
        /\ Len(doc.text) > ChunkSize
        /\ ~hasWhitespace(doc.text)
        /\ Len(chunks[r]) >= 2


\* ------------------------------------------------------------------- C17
\* the records a request has ready for its batch
batchRecords(r) == { batchVectors[r][k] : k \in DOMAIN batchVectors[r] }

\* C17: in whatever order the embedding calls of a batch return, the record
\* made for the passage at index k of the batch that starts at i is the
\* record chunk_(i + k) with the text and the embedding of passage i + k; the
\* batch that is upserted is the records chunk_i .. chunk_(i + m - 1) of its
\* m passages; the first batch starts at 0, the next batch starts where the
\* last one ended and the build ends when the last passage is upserted, so
\* that the ids of a build are chunk_0 .. chunk_(n - 1), none skipped and none
\* repeated; and the store never holds another record.
C17_IdsFollowPassages ==
    /\ [](/\ store \subseteq AllRecords
          /\ \A r \in Reqs :
              /\ \A k \in DOMAIN batchVectors[r] :
                    /\ batchVectors[r][k] = RecordOf(i[r] + k)
                    /\ batchVectors[r][k].metadata = chunks[r][i[r] + k + 1]
              /\ pc[r] = "upsert" =>
                    \E m \in 1..BatchSize :
                        batchRecords(r) =
                            { RecordOf(k) : k \in i[r]..(i[r] + m - 1) })
    /\ [][\A r \in Reqs :
            /\ (pc[r] = "pdf" /\ pc'[r] = "embed") => i'[r] = 0
            /\ (pc[r] = "upsert" /\ pc'[r] = "embed")
                  => /\ i'[r] = i[r] + Cardinality(batchRecords(r))
                     /\ store' = upsert(store, batchRecords(r))
            /\ (pc[r] = "upsert" /\ pc'[r] = "json")
                  => /\ i[r] + Cardinality(batchRecords(r)) = Len(Passages)
                     /\ store' = upsert(store, batchRecords(r))
            /\ (pc[r] = "embed" /\ pc'[r] = "embed") => i'[r] = i[r]
            /\ (pc[r] = "embed" /\ pc'[r] = "upsert") => i'[r] = i[r]
         ]_vars

\* the embedding of the second passage of a batch returned before the one of
\* the first
C17_Witness ==
    \E r \in Reqs :
        /\ pc[r] = "embed"
        /\ 0 \in pending[r]
        /\ 1 \in DOMAIN batchVectors[r]
        /\ batchVectors[r][1].id = i[r] + 1


\* ------------------------------------------------------------------- C18
\* the indexes of the batch request r is working on
batchIndexes(r) == pending[r] \cup DOMAIN batchVectors[r]

\* C18: within one build the embedding calls in flight are never more than
\* the batch size; a batch starts at a multiple of the batch size and holds
\* exactly that many passages unless it is the last one, which holds the
\* rest; and no embedding call of a build is in flight outside a batch.
C18_FanOutBounded ==
    \A r \in Reqs :
        /\ Cardinality(pending[r]) <= BatchSize
        /\ pc[r] # "embed" => pending[r] = {}
        /\ pc[r] \in { "embed", "upsert" } =>
              /\ i[r] % BatchSize = 0
              /\ i[r] < Len(chunks[r])
              /\ pending[r] \cap DOMAIN batchVectors[r] = {}
              /\ batchIndexes(r) =
                    0..((IF i[r] + BatchSize < Len(chunks[r])
                         THEN BatchSize ELSE Len(chunks[r]) - i[r]) - 1)
              /\ i[r] + BatchSize < Len(chunks[r])
                    => Cardinality(batchIndexes(r)) = BatchSize

\* a full batch is in flight and it is not the last one
C18_Witness ==
    \E r \in Reqs :
        /\ pc[r] = "embed"
        /\ Cardinality(pending[r]) = BatchSize
        /\ Len(chunks[r]) > i[r] + BatchSize

\* ------------------------------------------------------------------- C19
\* the records of the passages before the k-th
prefixRecords(k) == { RecordOf(j) : j \in 0..(k - 1) }

\* the build of r failed on an embedding
embedFailed(r) ==
    /\ pc[r] = "done"
    /\ InitFailed(response[r])
    /\ response[r].text[3] = "embedding request failed"

\* the start of the last batch r called the embedding service for
lastBatch(r) ==
    CHOOSE b \in BatchStarts :
        /\ called(r, "embedQuery") => countCalls(r, Call("embedQuery", b)) > 0
        /\ \A o \in BatchStarts :
              countCalls(r, Call("embedQuery", o)) > 0 => o <= b

\* C19: the upsert of a batch is issued only when every embedding of the
\* batch has returned; in the step in which an embedding call of the batch
\* that starts at i fails, the build ends with the error, the store is left
\* as it is, and the build has issued no upsert for that batch and no
\* embedding call for a later one; the store then holds the records of the
\* batches before i, which the build had upserted, and besides them only
\* records of passages written by other builds: exactly the passages before
\* i when no other request ran a build; and the failed request has upserted
\* every batch before the one that failed, and none from it on.
C19_FailedBatchNotUpserted ==
    /\ [](\A r \in Reqs :
            /\ pc[r] = "upsert" =>
                  (pending[r] = {} /\ Cardinality(batchRecords(r)) =
                      Len(batchChunks(chunks[r], i[r])))
            /\ embedFailed(r) =>
                  /\ prefixRecords(lastBatch(r)) \subseteq store
                  /\ \A b \in BatchStarts :
                        /\ b < lastBatch(r)
                              => countCalls(r, Call("upserted", b)) = 1
                        /\ b >= lastBatch(r)
                              => countCalls(r, Call("upsert", b)) = 0
                        /\ b > lastBatch(r)
                              => countCalls(r, Call("embedQuery", b)) = 0)
    /\ [][\A r \in Reqs :
            (pc[r] = "embed" /\ pc'[r] = "done") =>
                /\ embedFailed(r)'
                /\ lastBatch(r)' = i[r]
                /\ store' = store
                /\ \A k \in DOMAIN log'[r] :
                      /\ log'[r][k] # Call("upsert", i[r])
                      /\ log'[r][k].op = "embedQuery"
                            => log'[r][k].arg < i[r] + BatchSize
                /\ prefixRecords(i[r]) \subseteq store'
                /\ store' \subseteq AllRecords
                /\ (\A o \in Reqs \ {r} : ~ranBuild(o))
                      => store' = prefixRecords(i[r])
         ]_vars

\* the only build that ran failed on an embedding of its second batch: the
\* store holds the first batch
C19_Witness ==
    \E r \in Reqs :
        /\ embedFailed(r)
        /\ lastBatch(r) = BatchSize
        /\ \A o \in Reqs \ {r} : pc[o] = "idle"
        /\ store = prefixRecords(BatchSize)
        /\ Cardinality(store) = BatchSize
        /\ ~isInitialized

====
